---- MODULE Spec2Model ----
(***************************************************************************)
(* Invoice extraction of TEST_AI_FRONT: the rule-based engine              *)
(* interpret_invoice_data_regex (app_with_ollama.py) and the post-         *)
(* processing of a generative candidate in interpret_with_ollama           *)
(* (app_with_ollama.py) and interpret_with_gemini (app.py).                *)
(*                                                                         *)
(* A text is a sequence of lexical tokens: one token per digit, "sp" for a *)
(* whitespace character other than a line break, "nl" for a line break,    *)
(* and one token per word or symbol the patterns of the engine look for    *)
(* ("iphone", a colour word, "total", "prix", "eur" for a currency sign,   *)
(* "comma", "s" for a plural s).  The regular expressions are modelled as  *)
(* scanners over these tokens with Python's leftmost, greedy semantics.    *)
(* Money is counted in cents.                                              *)
(*                                                                         *)
(* Spec is one call of one strategy; SpecRuns is a series of calls on a    *)
(* clock of seconds; SpecApp is one request to process_image of either     *)
(* application; SpecPool is a pair of concurrent requests on the shared    *)
(* folders; SpecNames and SpecOrders are one call of the engine on texts   *)
(* of names and of orders of several models; SpecAnswers is one call of a  *)
(* generative strategy on answers whose values may be strings.             *)
(***************************************************************************)
EXTENDS Integers, Sequences, FiniteSets, TLC

VARIABLES text, response, phase, strategy, invoice, error,
          clock, runs, request, status, invoked, pdf, workers, files

vars == <<text, response, phase, strategy, invoice, error,
          clock, runs, request, status, invoked, pdf, workers, files>>

\* the state of one call, of a series of runs, of one request
callVars == <<phase, strategy, invoice, error>>

runVars == <<clock, runs>>

appVars == <<request, status, invoked, pdf>>

\* the requests in progress and the upload and invoice folders
poolVars == <<workers, files>>

-----------------------------------------------------------------------------
(* Bounds of the input space *)

MaxParts == 4

MaxItems == 2

\* longest run of digits in a text (amounts stay within 32-bit arithmetic)
MaxDigits == 4

\* phrases of a text of names, addresses and long digit runs
MaxContactParts == 3

\* a series of runs: phrases of the text, number of runs, seconds on the clock
MaxRunParts == 2

MaxRuns == 3

MaxClock == 1

\* a request: phrases of the text the OCR reads
MaxAppParts == 2

-----------------------------------------------------------------------------
(* Tokens and elementary scanners *)

Digits == {"0", "1", "2", "3", "4", "5", "6", "7", "8", "9"}

DigitVal(d) ==
    CASE d = "0" -> 0 [] d = "1" -> 1 [] d = "2" -> 2 [] d = "3" -> 3
      [] d = "4" -> 4 [] d = "5" -> 5 [] d = "6" -> 6 [] d = "7" -> 7
      [] d = "8" -> 8 [] d = "9" -> 9

Colours == {"noir", "blanc", "rouge", "rose", "bleu", "vert"}

\* one token for a run of 400 digits 9: an integer no float can hold
LongRun == "9x400"

\* float('inf'), above every amount of a text
Inf == 2147483647

\* the token at position i, "eot" past either end
At(s, i) == IF i >= 1 /\ i <= Len(s) THEN s[i] ELSE "eot"

\* \d* from position i: the first position that holds no digit
RECURSIVE DigitsEnd(_, _)
DigitsEnd(s, i) ==
    IF At(s, i) \in Digits \cup {LongRun} THEN DigitsEnd(s, i + 1) ELSE i

\* the run of digits holds the long run
IsHuge(ds) == \E i \in 1..Len(ds) : ds[i] = LongRun

\* \s* from position i
RECURSIVE SpacesEnd(_, _)
SpacesEnd(s, i) == IF At(s, i) = "sp" THEN SpacesEnd(s, i + 1) ELSE i

\* [:\s]* from position i
RECURSIVE ColonSpacesEnd(_, _)
ColonSpacesEnd(s, i) ==
    IF At(s, i) \in {"sp", "colon"} THEN ColonSpacesEnd(s, i + 1) ELSE i

\* int(qty_str) of a run of digits; a run with the long run is out of range
RECURSIVE IntOf(_)
IntOf(ds) ==
    IF IsHuge(ds) THEN Inf
    ELSE IF ds = <<>> THEN 0
    ELSE 10 * IntOf(SubSeq(ds, 1, Len(ds) - 1)) + DigitVal(ds[Len(ds)])

Abs(x) == IF x < 0 THEN -x ELSE x

NoMatch == [found |-> FALSE]

-----------------------------------------------------------------------------
(* Text normalizer: lines stripped, blank lines dropped, joined by a space *)

RECURSIVE StripLeft(_)
StripLeft(l) == IF l # <<>> /\ l[1] = "sp" THEN StripLeft(Tail(l)) ELSE l

RECURSIVE StripRight(_)
StripRight(l) ==
    IF l # <<>> /\ l[Len(l)] = "sp" THEN StripRight(SubSeq(l, 1, Len(l) - 1)) ELSE l

Strip(l) == StripRight(StripLeft(l))

\* extracted_text.split('\n')
RECURSIVE SplitLines(_, _)
SplitLines(s, cur) ==
    IF s = <<>> THEN <<cur>>
    ELSE IF s[1] = "nl" THEN <<cur>> \o SplitLines(Tail(s), <<>>)
    ELSE SplitLines(Tail(s), Append(cur, s[1]))

RECURSIVE JoinLines(_)
JoinLines(ls) ==
    IF ls = <<>> THEN <<>>
    ELSE IF Len(ls) = 1 THEN ls[1]
    ELSE ls[1] \o <<"sp">> \o JoinLines(Tail(ls))

Lines(raw) ==
    LET all == SplitLines(raw, <<>>)
    IN SelectSeq([i \in 1..Len(all) |-> Strip(all[i])], LAMBDA l : l # <<>>)

FullText(raw) == JoinLines(Lines(raw))

-----------------------------------------------------------------------------
(* Words.  A word token is written as its name shows: capitalised ("Jean") or *)
(* in lower case ("jean", "iphone"); tokens written side by side make one     *)
(* run of letters.                                                            *)

\* tokens of the shape [A-Z][a-z]+
CapWords == {"Jean", "Dupont", "Guy", "Merci", "Paris", "Nom"}

\* (?:rue|avenue|boulevard|place|chemin|allee|impasse)
StreetWords == {"rue", "avenue", "boulevard", "place", "chemin", "impasse"}

\* tokens of the shape [a-z]+
LowerWords ==
    {"jean", "iphone", "s", "total", "prix", "price", "montant"}
        \cup Colours \cup StreetWords

Letters == CapWords \cup LowerWords

\* \w: a letter or a digit
WordChars == Letters \cup Digits \cup {LongRun}

\* (?:Nom|Pour|Client) under re.IGNORECASE
LabelWords == {"Nom"}

\* len() of a word token
WordLen(w) ==
    CASE w = "s" -> 1
      [] w \in {"Guy", "Nom", "rue"} -> 3
      [] w \in {"Jean", "jean", "noir", "rose", "bleu", "vert", "prix"} -> 4
      [] w \in {"Merci", "Paris", "blanc", "rouge", "total", "price", "place"} -> 5
      [] w \in {"Dupont", "iphone", "avenue", "chemin"} -> 6
      [] w \in {"montant", "impasse"} -> 7
      [] w = "boulevard" -> 9

\* the end of the run of letters that starts at position i
RECURSIVE LettersEnd(_, _)
LettersEnd(s, i) == IF At(s, i) \in Letters THEN LettersEnd(s, i + 1) ELSE i

\* [a-z]* from position i
RECURSIVE LowerEnd(_, _)
LowerEnd(s, i) == IF At(s, i) \in LowerWords THEN LowerEnd(s, i + 1) ELSE i

\* the number of letters of the tokens at positions i..j-1
RECURSIVE LettersIn(_, _, _)
LettersIn(s, i, j) == IF i >= j THEN 0 ELSE WordLen(s[i]) + LettersIn(s, i + 1, j)

-----------------------------------------------------------------------------
(* interpret_invoice_data_regex: the address *)

\* the first position from i that holds a comma (past the end when none does)
RECURSIVE CommaFrom(_, _)
CommaFrom(s, i) ==
    IF i > Len(s) \/ s[i] = "comma" THEN i ELSE CommaFrom(s, i + 1)

\* \d+\s+(?:rue|...)[^,\n]+,\s*\d{5}\s+[A-Za-z...]+ tried at position p
AddressMatchAt(s, p) ==
    LET q == DigitsEnd(s, p)
        r == SpacesEnd(s, q)
        c == CommaFrom(s, r + 1)
        d == SpacesEnd(s, c + 1)
        e == SpacesEnd(s, d + 5)
    IN IF /\ q > p /\ r > q /\ At(s, r) \in StreetWords
          /\ c > r + 1 /\ c <= Len(s)
          /\ DigitsEnd(s, d) = d + 5 /\ ~IsHuge(SubSeq(s, d, d + 4))
          /\ e > d + 5 /\ At(s, e) \in Letters
       THEN [found |-> TRUE, start |-> p, end |-> LettersEnd(s, e)]
       ELSE NoMatch

\* re.search(address_pattern, full_text, re.IGNORECASE)
RECURSIVE SearchAddress(_, _)
SearchAddress(s, p) ==
    IF p > Len(s) THEN NoMatch
    ELSE IF AddressMatchAt(s, p).found THEN AddressMatchAt(s, p)
    ELSE SearchAddress(s, p + 1)

\* a variant that keeps the digits and the street word alone
client_address_shortened(s) ==
    LET m == SearchAddress(s, 1)
    IN IF m.found THEN SubSeq(s, m.start, SpacesEnd(s, DigitsEnd(s, m.start)))
       ELSE <<>>

\* lines 246-249
client_address(s) ==
    LET m == SearchAddress(s, 1)
    IN IF m.found THEN SubSeq(s, m.start, m.end - 1) ELSE <<>>

-----------------------------------------------------------------------------
(* interpret_invoice_data_regex: the client's name *)

\* [A-Z][a-z...]+ under re.IGNORECASE from position b: a run of two letters or more
WordEnd(s, b) == IF LettersIn(s, b, LettersEnd(s, b)) >= 2 THEN LettersEnd(s, b) ELSE 0

\* name_with_label_pattern tried at position p: the label at the start of the
\* text or after [.!?]\s+, then \s*:\s* and two words
LabelNameAt(s, p) ==
    LET l  == IF p = 1 /\ At(s, 1) \in LabelWords THEN 1
              ELSE IF At(s, p) = "dot" /\ SpacesEnd(s, p + 1) > p + 1
              THEN SpacesEnd(s, p + 1)
              ELSE 0
        a  == SpacesEnd(s, l + 1)
        b  == SpacesEnd(s, a + 1)
        e1 == WordEnd(s, b)
        f  == SpacesEnd(s, e1)
        e2 == WordEnd(s, f)
    IN IF /\ l > 0 /\ At(s, l) \in LabelWords /\ At(s, a) = "colon"
          /\ e1 > 0 /\ f > e1 /\ e2 > 0
       THEN [found |-> TRUE, name |-> SubSeq(s, b, e2 - 1)]
       ELSE NoMatch

\* re.search(name_with_label_pattern, full_text, re.IGNORECASE | re.MULTILINE)
RECURSIVE SearchLabelName(_, _)
SearchLabelName(s, p) ==
    IF p > Len(s) THEN NoMatch
    ELSE IF LabelNameAt(s, p).found THEN LabelNameAt(s, p)
    ELSE SearchLabelName(s, p + 1)

\* full_text.find(sub), 0 when sub does not occur
RECURSIVE Find(_, _, _)
Find(s, sub, p) ==
    IF p + Len(sub) - 1 > Len(s) THEN 0
    ELSE IF SubSeq(s, p, p + Len(sub) - 1) = sub THEN p
    ELSE Find(s, sub, p + 1)

\* ([A-Z][a-z...]+\s+[A-Z][a-z...]+)[,\s]*$ tried at position i of the text
\* before the address
NearAddressAt(b, i) ==
    LET e1 == LowerEnd(b, i + 1)
        f  == SpacesEnd(b, e1)
        e2 == LowerEnd(b, f + 1)
    IN IF /\ At(b, i) \in CapWords /\ f > e1 /\ At(b, f) \in CapWords
          /\ \A k \in e2..Len(b) : b[k] \in {"comma", "sp"}
       THEN [found |-> TRUE, name |-> SubSeq(b, i, e2 - 1), first |-> SubSeq(b, i, e1 - 1)]
       ELSE NoMatch

RECURSIVE SearchNearAddress(_, _)
SearchNearAddress(b, i) ==
    IF i > Len(b) THEN NoMatch
    ELSE IF NearAddressAt(b, i).found THEN NearAddressAt(b, i)
    ELSE SearchNearAddress(b, i + 1)

CommonWords == {"Votre", "Donner", "Merci", "Complet"}

\* lines 262-275; the texts of the model are shorter than the window of 100
\* characters, so before_address is all the text before the address
NameBeforeAddress(s, address) ==
    LET addr_pos == Find(s, address, 1)
        before_address == SubSeq(s, 1, addr_pos - 1)
        m == SearchNearAddress(before_address, 1)
    IN IF addr_pos > 1 /\ m.found
          /\ ~(Len(m.first) = 1 /\ m.first[1] \in CommonWords)
       THEN m
       ELSE NoMatch

\* \b([A-Z][a-z...]+)\s+([A-Z][a-z...]+)\b tried at position i
PairAt(s, i) ==
    LET e1 == LowerEnd(s, i + 1)
        f  == SpacesEnd(s, e1)
        e2 == LowerEnd(s, f + 1)
    IN IF /\ At(s, i - 1) \notin WordChars /\ At(s, i) \in CapWords
          /\ f > e1 /\ At(s, f) \in CapWords /\ At(s, e2) \notin WordChars
       THEN [found |-> TRUE, first |-> SubSeq(s, i, e1 - 1),
             last |-> SubSeq(s, f, e2 - 1), end |-> e2]
       ELSE NoMatch

excluded_words ==
    {"Today", "Bonjour", "Pour", "Tel", "Nom", "Adresse", "Prix", "Total", "Date",
     "Commander", "Commande", "Merci", "Parfait", "Service", "Votre", "Donner",
     "Pouvez", "Combien", "Quelle", "Couleur"}

\* word not in excluded_words and len(word) >= 4
ValidWord(w) ==
    /\ ~(Len(w) = 1 /\ w[1] \in excluded_words)
    /\ LettersIn(w, 1, Len(w) + 1) >= 4

\* lines 279-299: the first valid pair among the matches of re.findall
RECURSIVE FirstValidPair(_, _)
FirstValidPair(s, p) ==
    IF p > Len(s) THEN NoMatch
    ELSE LET m == PairAt(s, p)
         IN IF ~m.found THEN FirstValidPair(s, p + 1)
            ELSE IF ValidWord(m.first) /\ ValidWord(m.last)
            THEN [found |-> TRUE, name |-> m.first \o <<"sp">> \o m.last]
            ELSE FirstValidPair(s, m.end)

\* a variant in which the scan for any pair comes first
client_name_pair_first(s, address) ==
    IF FirstValidPair(s, 1).found THEN FirstValidPair(s, 1).name
    ELSE IF SearchLabelName(s, 1).found THEN SearchLabelName(s, 1).name
    ELSE IF address # <<>> /\ NameBeforeAddress(s, address).found
    THEN NameBeforeAddress(s, address).name
    ELSE <<"Client">>

\* lines 254-302
client_name(s, address) ==
    LET labelled == IF SearchLabelName(s, 1).found THEN SearchLabelName(s, 1).name
                    ELSE IF address # <<>> /\ NameBeforeAddress(s, address).found
                    THEN NameBeforeAddress(s, address).name
                    ELSE <<>>
        scanned  == IF labelled = <<>> /\ FirstValidPair(s, 1).found
                    THEN FirstValidPair(s, 1).name
                    ELSE labelled
    IN IF scanned = <<>> THEN <<"Client">> ELSE scanned

-----------------------------------------------------------------------------
(* interpret_invoice_data_regex: iPhone mentions *)

UNIT_PRICE == 25000

\* (\d+)\s*i[Pp]hone[s]?\s*(\d{0,2})? tried at position p
IPhoneMatchAt(s, p) ==
    LET q == DigitsEnd(s, p)
        r == SpacesEnd(s, q)
        a == IF At(s, r + 1) = "s" THEN r + 2 ELSE r + 1
        c == SpacesEnd(s, a)
        d == IF At(s, c) \in Digits
             THEN (IF At(s, c + 1) \in Digits THEN c + 2 ELSE c + 1)
             ELSE c
        \* the digits the model number takes from a long run, which stays in
        \* the text as a long run
        nines == IF At(s, d) = LongRun
                 THEN SubSeq(<<"9", "9">>, 1, 2 - (d - c))
                 ELSE <<>>
    IN IF q > p /\ At(s, r) = "iphone"
       THEN [found |-> TRUE, qty_str |-> SubSeq(s, p, q - 1),
             model |-> SubSeq(s, c, d - 1) \o nines, end |-> d]
       ELSE NoMatch

\* re.findall(iphone_pattern, full_text): leftmost, non-overlapping
RECURSIVE IPhoneMatches(_, _)
IPhoneMatches(s, p) ==
    IF p > Len(s) THEN <<>>
    ELSE LET m == IPhoneMatchAt(s, p)
         IN IF m.found
            THEN <<[qty_str |-> m.qty_str, model |-> m.model]>> \o IPhoneMatches(s, m.end)
            ELSE IPhoneMatches(s, p + 1)

\* key = f"iPhone {model_num}".strip()
ModelKey(model) == IF model = <<>> THEN <<"iphone">> ELSE <<"iphone", "sp">> \o model

\* quantities[key] += qty, the dict keeping the order of first insertion
RECURSIVE GroupQuantities(_, _)
GroupQuantities(matches, acc) ==
    IF matches = <<>> THEN acc
    ELSE LET key == ModelKey(matches[1].model)
             qty == IntOf(matches[1].qty_str)
             hit == {i \in 1..Len(acc) : acc[i].key = key}
         IN GroupQuantities(Tail(matches),
                IF hit = {}
                THEN Append(acc, [key |-> key, qty |-> qty])
                ELSE [i \in 1..Len(acc) |->
                        IF i \in hit THEN [acc[i] EXCEPT !.qty = @ + qty] ELSE acc[i]])

Description(label) == [label |-> label, colours |-> <<>>]

\* one item per key, at the fixed unit price
CreateItems(groups) ==
    [i \in 1..Len(groups) |->
        [description |-> Description(groups[i].key),
         quantity    |-> groups[i].qty,
         unit_price  |-> UNIT_PRICE,
         total       |-> groups[i].qty * UNIT_PRICE]]

RECURSIVE SumTotals(_)
SumTotals(items) ==
    IF items = <<>> THEN 0 ELSE items[1].total + SumTotals(Tail(items))

RECURSIVE SumQuantities(_)
SumQuantities(items) ==
    IF items = <<>> THEN 0 ELSE items[1].quantity + SumQuantities(Tail(items))

-----------------------------------------------------------------------------
(* interpret_invoice_data_regex: the explicit total *)

\* (\d+(?:[.,]\d{2})?)\s*[euro or dollar sign] tried at position p; the amount in cents
AmountAt(s, p) ==
    LET q  == DigitsEnd(s, p)
        dec == At(s, q) \in {"comma", "dot"}
                 /\ At(s, q + 1) \in Digits /\ At(s, q + 2) \in Digits
        r1 == SpacesEnd(s, q + 3)
        r0 == SpacesEnd(s, q)
        whole == IntOf(SubSeq(s, p, q - 1))
        huge  == IsHuge(SubSeq(s, p, q - 1))
    IN IF q = p THEN NoMatch
       ELSE IF dec /\ At(s, r1) = "eur"
       THEN [found |-> TRUE,
             cents |-> IF huge THEN Inf
                       ELSE 100 * whole + 10 * DigitVal(s[q + 1]) + DigitVal(s[q + 2])]
       ELSE IF At(s, r0) = "eur"
       THEN [found |-> TRUE, cents |-> IF huge THEN Inf ELSE 100 * whole]
       ELSE NoMatch

\* (?:total|prix\s*total|montant\s*total)[:\s]* followed by an amount, at position p
LabelledTotalAt(s, p) ==
    LET t == IF At(s, p) = "total" THEN p
             ELSE IF At(s, p) \in {"prix", "montant"}
                     /\ At(s, SpacesEnd(s, p + 1)) = "total"
             THEN SpacesEnd(s, p + 1)
             ELSE 0
    IN IF t = 0 THEN NoMatch ELSE AmountAt(s, ColonSpacesEnd(s, t + 1))

\* re.search: the match at the leftmost position that has one
RECURSIVE SearchLabelledTotal(_, _)
SearchLabelledTotal(s, p) ==
    IF p > Len(s) THEN NoMatch
    ELSE IF LabelledTotalAt(s, p).found THEN LabelledTotalAt(s, p)
    ELSE SearchLabelledTotal(s, p + 1)

RECURSIVE SearchAmount(_, _)
SearchAmount(s, p) ==
    IF p > Len(s) THEN NoMatch
    ELSE IF AmountAt(s, p).found THEN AmountAt(s, p)
    ELSE SearchAmount(s, p + 1)

\* the loop over total_patterns: the labelled pattern first, then the bare amount
ExtractTotal(s) ==
    IF SearchLabelledTotal(s, 1).found THEN SearchLabelledTotal(s, 1)
    ELSE SearchAmount(s, 1)

\* Python's round() of the quotient n / d (n >= 0, d > 0): ties go to the even integer
RoundHalfEven(n, d) ==
    LET q == n \div d
        r == n % d
    IN IF 2 * r < d THEN q
       ELSE IF 2 * r > d THEN q + 1
       ELSE IF q % 2 = 0 THEN q ELSE q + 1

\* abs(expected_total - extracted_total) > 0.01 in binary floating point: a
\* difference of exactly one cent compares greater only from 2048.00 upwards
Mismatch(expected, extracted) ==
    \/ Abs(expected - extracted) > 1
    \/ Abs(expected - extracted) = 1 /\ expected > 204800

\* a variant that recomputes the first item's quantity and leaves its total
ReconcileTotalQuantityOnly(items, total_amount, extracted) ==
    IF extracted.found /\ extracted.cents # 0 /\ items # <<>>
    THEN LET correct_qty == RoundHalfEven(extracted.cents, UNIT_PRICE)
         IN [items |->
                IF Mismatch(SumQuantities(items) * UNIT_PRICE, extracted.cents)
                   /\ correct_qty > 0
                THEN [items EXCEPT ![1].quantity = correct_qty]
                ELSE items,
             total_amount |-> extracted.cents]
    ELSE [items |-> items, total_amount |-> total_amount]

\* a variant that rewrites every item on a mismatch
ReconcileTotalEveryItem(items, total_amount, extracted) ==
    IF extracted.found /\ extracted.cents # 0 /\ items # <<>>
    THEN LET correct_qty == RoundHalfEven(extracted.cents, UNIT_PRICE)
         IN [items |->
                IF Mismatch(SumQuantities(items) * UNIT_PRICE, extracted.cents)
                   /\ correct_qty > 0
                THEN [i \in 1..Len(items) |->
                        [items[i] EXCEPT !.quantity = correct_qty,
                                         !.total = extracted.cents]]
                ELSE items,
             total_amount |-> extracted.cents]
    ELSE [items |-> items, total_amount |-> total_amount]

\* lines 358-373: the extracted total overrides the running total and,
\* on a mismatch, the first item
ReconcileTotal(items, total_amount, extracted) ==
    IF extracted.found /\ extracted.cents # 0 /\ items # <<>>
    THEN LET correct_qty == RoundHalfEven(extracted.cents, UNIT_PRICE)
         IN [items |->
                IF Mismatch(SumQuantities(items) * UNIT_PRICE, extracted.cents)
                   /\ correct_qty > 0
                THEN [items EXCEPT ![1] = [@ EXCEPT !.quantity = correct_qty,
                                                    !.total = extracted.cents]]
                ELSE items,
             total_amount |-> extracted.cents]
    ELSE [items |-> items, total_amount |-> total_amount]

-----------------------------------------------------------------------------
(* interpret_invoice_data_regex: colours *)

\* (\d+)?\s*(noir|blanc|rouge|rose|bleu|vert)s? tried at position p
ColourMatchAt(s, p) ==
    LET q == DigitsEnd(s, p)
        r == SpacesEnd(s, q)
        e == IF At(s, r + 1) = "s" THEN r + 2 ELSE r + 1
    IN IF At(s, r) \in Colours
       THEN [found |-> TRUE, qty |-> SubSeq(s, p, q - 1), color |-> s[r], end |-> e]
       ELSE NoMatch

RECURSIVE ColourMatches(_, _)
ColourMatches(s, p) ==
    IF p > Len(s) THEN <<>>
    ELSE LET m == ColourMatchAt(s, p)
         IN IF m.found
            THEN <<[qty |-> m.qty, color |-> m.color]>> \o ColourMatches(s, m.end)
            ELSE ColourMatches(s, p + 1)

\* a variant that counts the numbered colours on top of the stated quantity
RECURSIVE CountsOf(_)
CountsOf(ms) == IF ms = <<>> THEN 0 ELSE IntOf(ms[1].qty) + CountsOf(Tail(ms))

AnnotateColoursAdding(items, color_matches) ==
    IF color_matches # <<>> /\ items # <<>>
    THEN [items EXCEPT ![1].description.colours = @ \o color_matches,
                       ![1].quantity = @ + CountsOf(color_matches)]
    ELSE items

\* lines 380-390: the colours are appended to the first item's description
AnnotateColours(items, color_matches) ==
    IF color_matches # <<>> /\ items # <<>>
    THEN [items EXCEPT ![1].description.colours = @ \o color_matches]
    ELSE items

-----------------------------------------------------------------------------
(* interpret_invoice_data_regex: fallbacks and the record *)

\* (?:prix|price|montant)[:\s]* followed by an amount: leftmost match
RECURSIVE SearchGeneralPrice(_, _)
SearchGeneralPrice(s, p) ==
    IF p > Len(s) THEN NoMatch
    ELSE IF At(s, p) \in {"prix", "price", "montant"}
            /\ AmountAt(s, ColonSpacesEnd(s, p + 1)).found
    THEN AmountAt(s, ColonSpacesEnd(s, p + 1))
    ELSE SearchGeneralPrice(s, p + 1)

\* a variant that leaves the running total alone
GeneralPriceItemNoTotal(s, items, total_amount) ==
    IF items = <<>> /\ SearchGeneralPrice(s, 1).found
    THEN LET price == SearchGeneralPrice(s, 1).cents
         IN [items |-> <<[description |-> Description(<<"Service / Produit">>),
                          quantity |-> 1, unit_price |-> price, total |-> price]>>,
             total_amount |-> total_amount]
    ELSE [items |-> items, total_amount |-> total_amount]

\* lines 394-411: a single priced item when no iPhone was found
GeneralPriceItem(s, items, total_amount) ==
    IF items = <<>> /\ SearchGeneralPrice(s, 1).found
    THEN LET price == SearchGeneralPrice(s, 1).cents
         IN [items |-> <<[description |-> Description(<<"Service / Produit">>),
                          quantity |-> 1, unit_price |-> price, total |-> price]>>,
             total_amount |-> price]
    ELSE [items |-> items, total_amount |-> total_amount]

\* a variant without the substitution
PlaceholderItemOmitted(items) == items

\* lines 413-421: the placeholder item
PlaceholderItem(items) ==
    IF items = <<>>
    THEN <<[description |-> Description(<<"Service / Prestation">>),
            quantity |-> 1, unit_price |-> 0, total |-> 0]>>
    ELSE items

\* the function raises OverflowError: at line 331 on qty * UNIT_PRICE when a
\* quantity is too large for a float, at line 370 on round(inf / UNIT_PRICE)
Raises(extracted_text) ==
    LET full_text      == FullText(extracted_text)
        iphone_matches == IPhoneMatches(full_text, 1)
    IN \/ \E i \in 1..Len(iphone_matches) : IsHuge(iphone_matches[i].qty_str)
       \/ /\ iphone_matches # <<>>
          /\ ExtractTotal(full_text).found
          /\ ExtractTotal(full_text).cents = Inf

\* the record returned when the function does not raise
interpret_invoice_data_regex(extracted_text) ==
    LET full_text   == FullText(extracted_text)
        found       == CreateItems(GroupQuantities(IPhoneMatches(full_text, 1), <<>>))
        reconciled  == ReconcileTotal(found, SumTotals(found), ExtractTotal(full_text))
        coloured    == AnnotateColours(reconciled.items, ColourMatches(full_text, 1))
        priced      == GeneralPriceItem(full_text, coloured, reconciled.total_amount)
    IN [client_name    |-> client_name(full_text, client_address(full_text)),
        client_address |-> client_address(full_text),
        items          |-> PlaceholderItem(priced.items),
        total          |-> priced.total_amount]

-----------------------------------------------------------------------------
(* The answer of the generative model and its post-processing *)

\* a JSON key: absent, null, a number (money in cents), or a string that is
\* not the text of a number, such as 'abc'
Missing == [tag |-> "missing", val |-> 0]
Null    == [tag |-> "null", val |-> 0]
Num(n)  == [tag |-> "num", val |-> n]
Str     == [tag |-> "text", val |-> 0]

\* item.get('description', '').lower() contains 'iphone'
IsIPhone(description) == \E i \in 1..Len(description) : description[i] = "iphone"

Raised == [ok |-> FALSE]

\* total_price / quantity; the candidates of the model divide exactly
Quotient(n, d) == n \div d

\* app_with_ollama.py, one turn of the loop over items; Raised when the body raises
OllamaItem(item) ==
    LET quantity   == IF item.quantity.tag = "missing" THEN 1 ELSE item.quantity.val
        unit_price == IF IsIPhone(item.description) THEN Num(UNIT_PRICE)
                      ELSE IF item.unit_price.tag = "missing" THEN Num(UNIT_PRICE)
                      ELSE item.unit_price
    IN \* int(None) and int('abc') raise; quantity * None raises, and
       \* quantity * 'abc' is a string that total += refuses
       IF item.quantity.tag \in {"null", "text"} \/ unit_price.tag \in {"null", "text"}
       THEN Raised
       ELSE [ok |-> TRUE,
             item |-> [description |-> Description(item.description),
                       quantity    |-> quantity,
                       unit_price  |-> unit_price.val,
                       total       |-> quantity * unit_price.val]]

\* app.py, one turn of the loop over items
GeminiItem(item) ==
    LET quantity   == IF item.quantity.tag = "missing" THEN 1 ELSE item.quantity.val
        unit_price ==
            IF item.unit_price.tag = "num" THEN item.unit_price.val
            ELSE IF IsIPhone(item.description) THEN UNIT_PRICE
            ELSE IF item.total_price.tag = "num"
            THEN (IF quantity > 0 THEN Quotient(item.total_price.val, quantity) ELSE 0)
            ELSE UNIT_PRICE
    IN \* int(None) and int('abc') raise; a total_price of 'abc' becomes the
       \* item's total, which total += refuses
       IF item.quantity.tag \in {"null", "text"} \/ item.total_price.tag = "text"
       THEN Raised
       ELSE IF item.unit_price.tag = "text"
       THEN \* a unit_price that is present and not None is kept as it is: with a
            \* total_price the item goes through, the string still in it;
            \* without one, quantity * 'abc' is a string that total += refuses
            IF item.total_price.tag = "num"
            THEN [ok |-> TRUE,
                  item |-> [description     |-> Description(item.description),
                            quantity        |-> quantity,
                            unit_price_text |-> TRUE,
                            total           |-> item.total_price.val]]
            ELSE Raised
       ELSE [ok |-> TRUE,
             item |-> [description |-> Description(item.description),
                       quantity    |-> quantity,
                       unit_price  |-> unit_price,
                       total       |-> IF item.total_price.tag = "num"
                                       THEN item.total_price.val
                                       ELSE quantity * unit_price]]

Failure(message) == [invoice |-> <<>>, error |-> message]

Success(items, total) == [invoice |-> <<[items |-> items, total |-> total]>>, error |-> ""]

interpret_with_ollama(resp) ==
    IF resp.kind = "unavailable" THEN Failure("Ollama not available")
    ELSE IF resp.kind = "call_failed" THEN Failure("LLM error")
    ELSE IF resp.kind = "no_json" THEN Failure("Invalid JSON response from LLM")
    ELSE IF resp.kind = "bad_json" THEN Failure("LLM error")
    ELSE IF resp.items = <<>> THEN Failure("No items found in LLM response")
    ELSE LET done == [i \in 1..Len(resp.items) |-> OllamaItem(resp.items[i])]
         IN IF \E i \in 1..Len(done) : ~done[i].ok THEN Failure("LLM error")
            ELSE LET items == [i \in 1..Len(done) |-> done[i].item]
                 IN Success(items, SumTotals(items))

interpret_with_gemini(resp) ==
    IF resp.kind = "unavailable" THEN Failure("Gemini not available")
    ELSE IF resp.kind = "call_failed" THEN Failure("All Gemini API call methods failed")
    ELSE IF resp.kind \in {"no_json", "bad_json"} THEN Failure("Failed to parse JSON")
    ELSE IF resp.items = <<>> THEN Failure("No items found in Gemini response")
    ELSE LET done == [i \in 1..Len(resp.items) |-> GeminiItem(resp.items[i])]
         IN IF \E i \in 1..Len(done) : ~done[i].ok THEN Failure("Gemini error")
            ELSE LET items == [i \in 1..Len(done) |-> done[i].item]
                 IN \* float('abc') raises
                    IF resp.invoice_total.tag = "text" THEN Failure("Gemini error")
                    ELSE Success(items,
                                 IF resp.invoice_total.tag = "num"
                                 THEN resp.invoice_total.val
                                 ELSE SumTotals(items))

-----------------------------------------------------------------------------
(* The input space *)

\* The phrases a text is made of.  A text takes its phrases from one of two
\* vocabularies: the words of an order with its colours, or the words of an
\* order with its amounts of money.
\* A fourth vocabulary holds the long run of digits, and a third the words of
\* a name and an address.
OrderWords ==
    { <<"0">>, <<"1">>, <<"2">>, <<"iphone">>, <<"s">>, <<"noir">>, <<"blanc">>,
      <<"2", "sp", "noir">>, <<"colon">>, <<"sp">>, <<"nl">> }

AmountWords ==
    { <<"0">>, <<"1">>, <<"2">>, <<"5", "0", "0">>, <<"2", "comma", "5", "0">>,
      <<"iphone">>, <<"noir">>, <<"eur">>, <<"total">>, <<"prix">>, <<"colon">>,
      <<"sp">> }

LongWords ==
    { <<LongRun>>, <<"1">>, <<"iphone">>, <<"eur">>, <<"total">>, <<"prix">>, <<"sp">> }

ContactWords ==
    { <<"Nom", "colon">>, <<"Jean", "sp", "Dupont">>, <<"Guy">>, <<"Merci">>,
      <<"jean">>, <<"Paris">>, <<"Paris", "sp">>, <<"dot", "sp">>, <<"sp">>, <<"nl">>,
      <<"1", "sp", "rue", "sp">>,
      <<"1", "sp", "rue", "sp", "comma", "sp", "1", "0", "0", "0", "0", "sp", "Paris">> }

\* the vocabularies whose digits make quantities and amounts
Counted == {OrderWords, AmountWords}

Uncounted == {LongWords, ContactWords}

RECURSIVE Flatten(_)
Flatten(parts) == IF parts = <<>> THEN <<>> ELSE parts[1] \o Flatten(Tail(parts))

\* no run of more than n digits
RECURSIVE DigitRunsWithin(_, _, _)
DigitRunsWithin(s, run, n) ==
    IF run > n THEN FALSE
    ELSE IF s = <<>> THEN TRUE
    ELSE DigitRunsWithin(Tail(s), IF s[1] \in Digits THEN run + 1 ELSE 0, n)

\* a text of quantities and amounts: at most parts phrases of one vocabulary,
\* written one after the other, its digit runs at most MaxDigits long
CountedText(t, parts) ==
    /\ \E words \in Counted :
          \E n \in 0..parts : \E ps \in [1..n -> words] : t = Flatten(ps)
    /\ DigitRunsWithin(t, 0, MaxDigits)

\* a text of names, addresses and long digit runs
UncountedText(t, parts) ==
    \E words \in Uncounted :
       \E n \in 0..parts : \E ps \in [1..n -> words] : t = Flatten(ps)

IsTextOf(t, parts) == CountedText(t, parts) \/ UncountedText(t, parts)

IsText(t) == CountedText(t, MaxParts) \/ UncountedText(t, MaxContactParts)

\* the shapes of a candidate item: the first item of a candidate ranges over
\* all of them, the items after it over FurtherItems
CandidateItems ==
    [description : {<<"iphone", "sp", "1", "4">>, <<"coque">>},
     quantity    : {Missing, Null, Num(-1), Num(0), Num(2)},
     unit_price  : {Missing, Null, Num(30000)},
     total_price : {Null, Num(60000)}]

FurtherItems ==
    [description : {<<"iphone", "sp", "1", "4">>, <<"coque">>},
     quantity    : {Null, Num(2)},
     unit_price  : {Missing},
     total_price : {Null, Num(60000)}]

NoResponse == [kind |-> "none", items |-> <<>>, invoice_total |-> Null]

\* an answer: the model is unavailable, the call fails, the answer holds no
\* JSON object or a malformed one, or it is a candidate of at most MaxItems items
IsResponse(r) ==
    \/ r \in [kind : {"unavailable", "call_failed", "no_json", "bad_json"},
              items : {<<>>}, invoice_total : {Null}]
    \/ \E t \in {Null, Num(75000)} :
          \/ r = [kind |-> "json", items |-> <<>>, invoice_total |-> t]
          \/ \E first \in CandidateItems :
               \E n \in 0..(MaxItems - 1) : \E more \in [1..n -> FurtherItems] :
                  r = [kind |-> "json", items |-> <<first>> \o more,
                       invoice_total |-> t]

\* the text that goes with a request answered by a generative model
PromptText == <<"1", "sp", "iphone">>

-----------------------------------------------------------------------------
(* The state machine: one extraction per request *)

\* the two requests of a pair of concurrent requests
Requests == {1, 2}

\* the names of the uploaded files and the texts their images show
PoolNames == {"a.png", "b.png"}

PoolTexts == {<<"1", "sp", "iphone">>, <<"2", "sp", "iphone">>}

NoFile == [by |-> 0, content |-> <<>>]

\* the upload folder, by timestamp and name, and the invoice folder, by
\* timestamp; both empty
NoFiles ==
    [uploads |-> [path \in (0..MaxClock) \X PoolNames |-> NoFile],
     pdfs    |-> [stamp \in 0..MaxClock |-> NoFile]]

NoWorker ==
    [pc |-> "idle", timestamp |-> 0, filename |-> "", extracted_text |-> <<>>,
     upload_by |-> 0, invoice_data |-> <<>>, pdf_by |-> 0, pdf_base64 |-> <<>>,
     status |-> 0]

NoRequest ==
    [app |-> "none", upload |-> "none", filename |-> <<>>, saved |-> FALSE,
     method |-> "none", ocr |-> "none"]

\* no call made, no run made, no request served
Idle ==
    /\ phase = "ready" /\ strategy = "none" /\ invoice = <<>> /\ error = ""
    /\ clock = 0 /\ runs = <<>>
    /\ request = NoRequest /\ status = 0 /\ invoked = {} /\ pdf = FALSE
    /\ workers = [r \in Requests |-> NoWorker] /\ files = NoFiles

Init ==
    /\ \/ IsText(text) /\ response = NoResponse
       \/ text = PromptText /\ IsResponse(response)
    /\ Idle

RegexExtract ==
    /\ phase = "ready"
    /\ IF Raises(text)
       THEN invoice' = <<>> /\ error' = "OverflowError"
       ELSE invoice' = <<interpret_invoice_data_regex(text)>> /\ error' = ""
    /\ strategy' = "regex"
    /\ phase' = "done"
    /\ UNCHANGED <<text, response, runVars, appVars, poolVars>>

OllamaExtract ==
    /\ phase = "ready"
    /\ response # NoResponse
    /\ invoice' = interpret_with_ollama(response).invoice
    /\ error' = interpret_with_ollama(response).error
    /\ strategy' = "ollama"
    /\ phase' = "done"
    /\ UNCHANGED <<text, response, runVars, appVars, poolVars>>

GeminiExtract ==
    /\ phase = "ready"
    /\ response # NoResponse
    /\ invoice' = interpret_with_gemini(response).invoice
    /\ error' = interpret_with_gemini(response).error
    /\ strategy' = "gemini"
    /\ phase' = "done"
    /\ UNCHANGED <<text, response, runVars, appVars, poolVars>>

Next == RegexExtract \/ OllamaExtract \/ GeminiExtract

Spec == Init /\ [][Next]_vars

-----------------------------------------------------------------------------
(* A series of runs.  A run reads the clock, datetime.now(), and touches no   *)
(* state but its own locals, so that runs in concurrent requests act on one   *)
(* another as runs made one after the other; the clock never goes back.       *)

SecondsPerDay == 86400

\* datetime.now().strftime('%d/%m/%Y')
DayOf(now) == now \div SecondsPerDay

\* a variant whose total depends on the second of the run
StampedCounting(data, now) ==
    [data |-> [data EXCEPT !.total = @ + now], date |-> DayOf(now), invoice_number |-> now]

\* the record with its date and its invoice_number "INV-%Y%m%d%H%M%S": the
\* second of the run
Stamped(data, now) ==
    [data |-> data, date |-> DayOf(now), invoice_number |-> now]

\* what a run of the engine on text t at second now returns, nothing when it raises
RegexOut(t, now) ==
    IF Raises(t) THEN <<>> ELSE <<Stamped(interpret_invoice_data_regex(t), now)>>

\* what a generative strategy returns from the answer at second now
GenerativeOut(result, now) ==
    IF result.invoice = <<>> THEN <<>> ELSE <<Stamped(result.invoice[1], now)>>

\* the text of another request
OtherText == <<"2", "sp", "iphone">>

\* the answers of the generative model in a series of runs
SampleResponses ==
    {[kind |-> "json", items |-> <<item>>, invoice_total |-> Null] : item \in FurtherItems}

\* the phrases of the texts of a series of runs: an order, an amount, a long
\* run of digits, a name and an address
RunWords ==
    { <<"2">>, <<"sp">>, <<"iphone">>, <<LongRun>>, <<"5", "0", "0", "eur">>,
      <<"Jean", "sp", "Dupont">>,
      <<"1", "sp", "rue", "sp", "comma", "sp", "1", "0", "0", "0", "0", "sp", "Paris">> }

RunText(t) ==
    \E n \in 0..MaxRunParts : \E ps \in [1..n -> RunWords] : t = Flatten(ps)

InitRuns ==
    /\ \/ RunText(text) /\ response = NoResponse
       \/ text = PromptText /\ response \in SampleResponses
    /\ Idle

Run(s, t, out, now) ==
    /\ Len(runs) < MaxRuns
    /\ clock' = now
    /\ runs' = Append(runs, [strategy |-> s, text |-> t, out |-> out])
    /\ UNCHANGED <<text, response, callVars, appVars, poolVars>>

RegexRun == \E now \in clock..MaxClock : Run("regex", text, RegexOut(text, now), now)

OtherRun == \E now \in clock..MaxClock : Run("regex", OtherText, RegexOut(OtherText, now), now)

OllamaRun ==
    /\ response # NoResponse
    /\ \E now \in clock..MaxClock :
          Run("ollama", text, GenerativeOut(interpret_with_ollama(response), now), now)

GeminiRun ==
    /\ response # NoResponse
    /\ \E now \in clock..MaxClock :
          Run("gemini", text, GenerativeOut(interpret_with_gemini(response), now), now)

NextRuns == RegexRun \/ OtherRun \/ OllamaRun \/ GeminiRun

SpecRuns == InitRuns /\ [][NextRuns]_vars

-----------------------------------------------------------------------------
(* process_image: one request to /api/process-image, in app_with_ollama.py   *)
(* and in app.py.  The file system and the PDF library are taken to work.    *)

\* text.strip() in extract_text_from_image
RECURSIVE StripWs(_)
StripWs(raw) ==
    IF raw # <<>> /\ raw[1] \in {"sp", "nl"} THEN StripWs(Tail(raw))
    ELSE IF raw # <<>> /\ raw[Len(raw)] \in {"sp", "nl"}
    THEN StripWs(SubSeq(raw, 1, Len(raw) - 1))
    ELSE raw

ALLOWED_EXTENSIONS == {"png", "jpg", "jpeg", "gif", "bmp", "webp"}

\* str.lower() on the extensions of the model
Lower(x) == IF x = "PNG" THEN "png" ELSE x

\* a file name is the sequence of its parts between dots, <<>> for ''
FileNames ==
    { <<>>, <<"a">>, <<"a", "png">>, <<"a", "PNG">>, <<"a", "exe">>,
      <<"a", "png", "exe">>, <<"a", "exe", "png">> }

\* the 'image' part of the request, if it has one
Parts ==
    {[present |-> FALSE, filename |-> <<>>]}
        \cup {[present |-> TRUE, filename |-> f] : f \in FileNames}

\* a variant that accepts an allowed extension anywhere in the name
allowed_file_any_part(filename) ==
    \E i \in 2..Len(filename) : Lower(filename[i]) \in ALLOWED_EXTENSIONS

\* '.' in filename and filename.rsplit('.', 1)[1].lower() in ALLOWED_EXTENSIONS
allowed_file(filename) ==
    Len(filename) >= 2 /\ Lower(filename[Len(filename)]) \in ALLOWED_EXTENSIONS

\* what the request carries: no file, a file without a name, a file of a type
\* that allowed_file refuses, or an image
UploadOf(part) ==
    IF ~part.present THEN "missing"
    ELSE IF part.filename = <<>> THEN "unnamed"
    ELSE IF ~allowed_file(part.filename) THEN "refused"
    ELSE "image"

\* the status of the early return on the upload, 0 when there is none
UploadRejection(upload) == IF upload = "image" THEN 0 ELSE 400

\* a variant that lets a blank text through
InputRejectionLax(ocr, extracted_text) == IF ocr = "error" THEN 500 ELSE 0

\* the status of the early return after the OCR, 0 when there is none
InputRejection(ocr, extracted_text) ==
    IF ocr = "error" THEN 500
    ELSE IF extracted_text = <<>> THEN 400
    ELSE 0

\* an early return; nothing has been written unless AfterSave says so
Refused(app, upload, method, ocr, code) ==
    [request |-> [app |-> app, upload |-> upload, filename |-> <<>>, saved |-> FALSE,
                  method |-> method, ocr |-> ocr],
     status |-> code, invoice |-> <<>>, invoked |-> {}, pdf |-> FALSE,
     method_used |-> "none"]

\* the except clause of process_image: a strategy raised
ServerError(app, method, invoked_so_far) ==
    [request |-> [app |-> app, upload |-> "image", filename |-> <<>>, saved |-> TRUE,
                  method |-> method, ocr |-> "text"],
     status |-> 500, invoice |-> <<>>, invoked |-> invoked_so_far, pdf |-> FALSE,
     method_used |-> "none"]

Served(app, method, invoice_data, invoked_so_far, method_used) ==
    [request |-> [app |-> app, upload |-> "image", filename |-> <<>>, saved |-> TRUE,
                  method |-> method, ocr |-> "text"],
     status |-> 200, invoice |-> <<invoice_data>>, invoked |-> invoked_so_far,
     pdf |-> TRUE, method_used |-> method_used]

\* the engine as step 2 of a request
RegexStep(app, method, extracted_text, invoked_so_far, method_used) ==
    IF Raises(extracted_text)
    THEN ServerError(app, method, invoked_so_far \cup {"regex"})
    ELSE Served(app, method, interpret_invoice_data_regex(extracted_text),
                invoked_so_far \cup {"regex"}, method_used)

\* file.save(filepath) has been executed before the return
AfterSave(out) == [out EXCEPT !.request.saved = TRUE]

\* the response to the request that carried this part
Of(part, out) == [out EXCEPT !.request.filename = part.filename]

\* app_with_ollama.py lines 548-616
process_image_ollama(part, method, ocr, raw, resp) ==
    LET upload == UploadOf(part)
        extracted_text == StripWs(raw)
        llm == interpret_with_ollama(resp)
    IN Of(part,
       IF UploadRejection(upload) # 0
       THEN Refused("ollama", upload, "none", "none", UploadRejection(upload))
       ELSE IF InputRejection(ocr, extracted_text) # 0
       THEN AfterSave(Refused("ollama", upload, method, ocr,
                              InputRejection(ocr, extracted_text)))
       ELSE IF method = "ollama" /\ resp.kind # "unavailable"
       THEN (IF llm.error # ""
             THEN RegexStep("ollama", method, extracted_text, {"ollama"},
                            "regex (ollama failed)")
             ELSE Served("ollama", method, llm.invoice[1], {"ollama"}, "ollama"))
       ELSE RegexStep("ollama", method, extracted_text, {}, "regex"))

\* app.py lines 648-706
process_image_gemini(part, ocr, raw, resp) ==
    LET upload == UploadOf(part)
        extracted_text == StripWs(raw)
        llm == interpret_with_gemini(resp)
    IN Of(part,
       IF UploadRejection(upload) # 0
       THEN Refused("gemini", upload, "none", "none", UploadRejection(upload))
       ELSE IF resp.kind = "unavailable"
       THEN Refused("gemini", upload, "none", "none", 503)
       ELSE IF InputRejection(ocr, extracted_text) # 0
       THEN AfterSave(Refused("gemini", upload, "none", ocr,
                              InputRejection(ocr, extracted_text)))
       ELSE IF llm.error # ""
       THEN AfterSave([Refused("gemini", upload, "none", ocr, 500)
                          EXCEPT !.invoked = {"gemini"}])
       ELSE Served("gemini", "none", llm.invoice[1], {"gemini"}, "gemini"))

\* the answers with which both generative strategies fail
FailingResponses ==
    [kind : {"unavailable", "call_failed", "no_json", "bad_json"},
     items : {<<>>}, invoice_total : {Null}]
        \cup {[kind |-> "json", items |-> <<>>, invoice_total |-> Null]}

InitApp ==
    /\ \/ IsTextOf(text, MaxAppParts) /\ response \in FailingResponses
       \/ text = PromptText /\ IsResponse(response)
    /\ Idle

Respond(out) ==
    /\ phase = "ready"
    /\ request' = out.request
    /\ status' = out.status
    /\ invoice' = out.invoice
    /\ invoked' = out.invoked
    /\ pdf' = out.pdf
    /\ strategy' = out.method_used
    /\ error' = IF out.status = 200 THEN "" ELSE "error"
    /\ phase' = "done"
    /\ UNCHANGED <<text, response, runVars, poolVars>>

ProcessImageOllama ==
    \E part \in Parts, method \in {"regex", "ollama"}, ocr \in {"text", "error"} :
        Respond(process_image_ollama(part, method, ocr, text, response))

ProcessImageGemini ==
    \E part \in Parts, ocr \in {"text", "error"} :
        Respond(process_image_gemini(part, ocr, text, response))

NextApp == ProcessImageOllama \/ ProcessImageGemini

SpecApp == InitApp /\ [][NextApp]_vars

-----------------------------------------------------------------------------
(* process_image: two requests served by two threads of the same server.    *)
(* A request writes and reads the upload folder and the invoice folder; the *)
(* steps of a request are the stretches of code between two accesses.       *)

\* generate_pdf_invoice: the document prints the number, the date, the
\* client, the items and the total of the record (lines 459-493)
Render(inv) ==
    [invoice_number |-> inv.invoice_number, date |-> inv.date,
     client_name |-> inv.data.client_name, client_address |-> inv.data.client_address,
     items |-> inv.data.items, total |-> inv.data.total]

\* base64.b64encode(pdf_file.read()).decode('utf-8')
Encode(doc) == [b64 |-> doc]

PoolStep(r, w, f) ==
    /\ workers' = [workers EXCEPT ![r] = w]
    /\ files' = f
    /\ UNCHANGED <<text, response, callVars, runVars, appVars>>

\* lines 569-574: timestamp = now, filename = timestamp_name, file.save
SaveUpload(r) ==
    /\ workers[r].pc = "idle"
    /\ \E name \in PoolNames, image \in PoolTexts :
          PoolStep(r,
              [workers[r] EXCEPT !.pc = "saved", !.timestamp = clock, !.filename = name],
              [files EXCEPT !.uploads[<<clock, name>>] = [by |-> r, content |-> image]])

\* lines 576-595: the OCR reads the saved file, the engine interprets the text
ExtractUpload(r) ==
    /\ workers[r].pc = "saved"
    /\ \E file \in {files.uploads[<<workers[r].timestamp, workers[r].filename>>]} :
       \E extracted_text \in {StripWs(file.content)} :
       \E out \in {RegexOut(extracted_text, clock)} :
          PoolStep(r,
              [workers[r] EXCEPT !.pc = IF out = <<>> THEN "done" ELSE "extracted",
                                 !.status = IF out = <<>> THEN 500 ELSE 0,
                                 !.extracted_text = extracted_text,
                                 !.upload_by = file.by,
                                 !.invoice_data = out],
              files)

\* lines 597-600: generate_pdf_invoice writes invoice_<timestamp>.pdf
GeneratePdf(r) ==
    /\ workers[r].pc = "extracted"
    /\ PoolStep(r,
          [workers[r] EXCEPT !.pc = "generated"],
          [files EXCEPT !.pdfs[workers[r].timestamp] =
              [by |-> r, content |-> <<Render(workers[r].invoice_data[1])>>]])

\* lines 602-613: the file is read again and returned with the record
ReturnPdf(r) ==
    /\ workers[r].pc = "generated"
    /\ LET file == files.pdfs[workers[r].timestamp]
       IN PoolStep(r,
              [workers[r] EXCEPT !.pc = "done", !.status = 200, !.pdf_by = file.by,
                                 !.pdf_base64 = <<Encode(file.content[1])>>],
              files)

\* a second passes
Tick ==
    /\ clock < MaxClock
    /\ clock' = clock + 1
    /\ UNCHANGED <<text, response, callVars, runs, appVars, poolVars>>

InitPool == text = <<>> /\ response = NoResponse /\ Idle

NextPool ==
    \/ \E r \in Requests : SaveUpload(r)
    \/ \E r \in Requests : ExtractUpload(r)
    \/ \E r \in Requests : GeneratePdf(r)
    \/ \E r \in Requests : ReturnPdf(r)
    \/ Tick

SpecPool == InitPool /\ [][NextPool]_vars

-----------------------------------------------------------------------------
(* The engine on texts of labels and names, of several lines and sentences *)

\* phrases of a text of labels and names
MaxNameParts == 4

NameWords ==
    { <<"Nom", "colon">>, <<"Guy", "sp", "Paris">>, <<"Jean", "sp", "Dupont">>,
      <<"Merci">>, <<"dot">>, <<"dot", "sp">>, <<"sp">>, <<"nl">> }

NameText(t) ==
    \E n \in 0..MaxNameParts : \E ps \in [1..n -> NameWords] : t = Flatten(ps)

InitNames ==
    /\ NameText(text) /\ response = NoResponse
    /\ Idle

NextNames == RegexExtract

SpecNames == InitNames /\ [][NextNames]_vars

-----------------------------------------------------------------------------
(* The engine on orders of several models, with colours and a total *)

\* phrases of an order of several models
MaxOrderParts == 4

OrderListWords ==
    { <<"1", "sp", "iphone">>, <<"2", "sp", "iphone", "sp", "1", "4">>,
      <<"1", "sp", "iphone", "sp", "1", "5">>, <<"comma", "sp">>, <<"sp">>,
      <<"sp", "noir">>, <<"sp", "2", "sp", "blanc">>,
      <<"sp", "total", "colon", "sp", "1", "0", "0", "0", "eur">>,
      <<"sp", "1", "0", "0", "eur">> }

OrderListText(t) ==
    \E n \in 0..MaxOrderParts : \E ps \in [1..n -> OrderListWords] : t = Flatten(ps)

InitOrders ==
    /\ OrderListText(text) /\ response = NoResponse
    /\ Idle

NextOrders == RegexExtract

SpecOrders == InitOrders /\ [][NextOrders]_vars

-----------------------------------------------------------------------------
(* The generative strategies on answers whose values may be strings *)

\* the shapes of an item whose quantity, unit_price or total_price may also be
\* a string that is not the text of a number
AnswerItems ==
    [description : {<<"iphone", "sp", "1", "4">>, <<"coque">>},
     quantity    : {Missing, Null, Str, Num(2)},
     unit_price  : {Missing, Null, Str, Num(30000)},
     total_price : {Null, Str, Num(60000)}]

\* an answer: the model is unavailable, the call fails, the answer holds no
\* JSON object or a malformed one, or it is a candidate of at most MaxItems
\* items
IsAnswer(r) ==
    \/ r \in [kind : {"unavailable", "call_failed", "no_json", "bad_json"},
              items : {<<>>}, invoice_total : {Null}]
    \/ \E t \in {Null, Str, Num(75000)} :
          \/ r = [kind |-> "json", items |-> <<>>, invoice_total |-> t]
          \/ \E first \in AnswerItems :
               \E n \in 0..(MaxItems - 1) : \E more \in [1..n -> FurtherItems] :
                  r = [kind |-> "json", items |-> <<first>> \o more,
                       invoice_total |-> t]

InitAnswers ==
    /\ text = PromptText /\ IsAnswer(response)
    /\ Idle

NextAnswers == OllamaExtract \/ GeminiExtract

SpecAnswers == InitAnswers /\ [][NextAnswers]_vars

-----------------------------------------------------------------------------
(* Vocabulary of the properties *)

\* strategy s has returned a record
Done(s) == phase = "done" /\ strategy = s /\ invoice # <<>>

\* whitespace of the raw text from position i
RECURSIVE WsEnd(_, _)
WsEnd(s, i) == IF At(s, i) \in {"sp", "nl"} THEN WsEnd(s, i + 1) ELSE i

\* The raw text read as an order: an optional quantity, "iPhone", an optional
\* model number of at most two digits, and what follows (from position rest).
Order(t) ==
    LET p == WsEnd(t, 1)
        q == DigitsEnd(t, p)
        r == WsEnd(t, q)
        a == IF At(t, r + 1) = "s" THEN r + 2 ELSE r + 1
        c == WsEnd(t, a)
        d == IF At(t, c) \in Digits
             THEN (IF At(t, c + 1) \in Digits THEN c + 2 ELSE c + 1)
             ELSE c
    IN [mention |-> At(t, r) = "iphone",
        stated  |-> q > p,
        Q       |-> IntOf(SubSeq(t, p, q - 1)),
        model   |-> SubSeq(t, c, d - 1),
        rest    |-> d]

\* what follows the mention holds colour mentions only: colour words, counts
\* and separators, no further product and no amount of money
ColoursOnly(t, from) ==
    \A i \in from..Len(t) :
        t[i] \in Colours \cup Digits \cup {"sp", "nl", "comma", "colon", "s"}

\* the model number, if any, is set off from the colours by a separator, and
\* no count is the fraction of a decimal number
ModelSetOff(t) ==
    /\ Order(t).model = <<>> \/ At(t, Order(t).rest) \in {"comma", "colon", "eot"}
    /\ \A i \in Order(t).rest..Len(t) : t[i] \in Digits => At(t, i - 1) # "comma"

\* the colour mentions the engine reads in the text
Mentions(t) == ColourMatches(FullText(t), 1)

RECURSIVE NumberedSum(_)
NumberedSum(ms) ==
    IF ms = <<>> THEN 0 ELSE IntOf(ms[1].qty) + NumberedSum(Tail(ms))

AnyNumbered(ms) == \E i \in 1..Len(ms) : ms[i].qty # <<>>

DistinctColours(ms) == Cardinality({ms[i].color : i \in 1..Len(ms)})

Items == invoice[1].items

\* the items and the total as they stand before the explicit total is looked at
FoundItems(t) == CreateItems(GroupQuantities(IPhoneMatches(FullText(t), 1), <<>>))

Declared(t) == ExtractTotal(FullText(t))

-----------------------------------------------------------------------------
(* C1: a stated quantity is a ceiling *)

\* C1: when the text states a quantity Q before a single iPhone mention and
\* only colour mentions follow, the engine returns exactly one item and its
\* quantity is Q, whatever counts the colours carry.
C1_QuantityCeiling ==
    (Done("regex") /\ Order(text).mention /\ Order(text).stated
        /\ ColoursOnly(text, Order(text).rest))
    => (Len(Items) = 1 /\ Items[1].quantity = Order(text).Q)

\* a stated quantity of 2, followed by an unnumbered and a numbered colour
C1_Witness ==
    /\ Done("regex") /\ Order(text).mention /\ Order(text).stated
    /\ ColoursOnly(text, Order(text).rest)
    /\ Order(text).Q = 2
    /\ Items[1].quantity = 2
    /\ \E i, j \in 1..Len(Items[1].description.colours) :
          /\ Items[1].description.colours[i].qty = <<>>
          /\ Items[1].description.colours[j].qty # <<>>

-----------------------------------------------------------------------------
(* C2: truncation of the colour distribution *)

\* C2: when a quantity Q >= 1 is stated for the product and the numbered colour
\* counts that follow sum to more than Q, the distribution recorded in the
\* description sums to at most Q and the quantity stays Q.
C2_Truncation ==
    (Done("regex") /\ Order(text).mention /\ Order(text).stated
        /\ Order(text).Q >= 1 /\ ModelSetOff(text)
        /\ ColoursOnly(text, Order(text).rest)
        /\ NumberedSum(Mentions(text)) > Order(text).Q)
    => (/\ Items[1].quantity = Order(text).Q
        /\ NumberedSum(Items[1].description.colours) <= Order(text).Q)

-----------------------------------------------------------------------------
(* C3: no stated quantity *)

\* C3: when the text mentions an iPhone model without a quantity before it and
\* then enumerates colours, the engine returns an item for that model whose
\* quantity is the sum of the numbered colour counts if a colour is numbered,
\* and the number of distinct colours otherwise.
C3_QuantityFromColours ==
    (Done("regex") /\ Order(text).mention /\ ~Order(text).stated
        /\ ModelSetOff(text) /\ ColoursOnly(text, Order(text).rest)
        /\ Mentions(text) # <<>>)
    => (/\ Items[1].description.label = ModelKey(Order(text).model)
        /\ Items[1].quantity =
              IF AnyNumbered(Mentions(text)) THEN NumberedSum(Mentions(text))
              ELSE DistinctColours(Mentions(text)))

-----------------------------------------------------------------------------
(* C4: the explicit total overrides the itemization *)

Max(a, b) == IF a >= b THEN a ELSE b

\* an explicit total was extracted, an iPhone item exists, and the two
\* disagree by more than one cent
TotalDisagrees(t) ==
    /\ Declared(t).found
    /\ FoundItems(t) # <<>>
    /\ Abs(Declared(t).cents - SumTotals(FoundItems(t))) > 1

-----------------------------------------------------------------------------
(* C5: the record's total *)

\* C5: the record's total is the total the text declares when it declares one
\* (a labelled total, or else a bare amount with a currency sign), and the sum
\* of the item totals when it declares none.
C5_DeclaredTotal ==
    Done("regex")
    => invoice[1].total = IF Declared(text).found THEN Declared(text).cents
                          ELSE SumTotals(Items)

-----------------------------------------------------------------------------
(* C6: a record has items *)

Placeholder ==
    [description |-> Description(<<"Service / Prestation">>),
     quantity |-> 1, unit_price |-> 0, total |-> 0]

\* C6: every record, whichever strategy produced it, has at least one item; the
\* engine's record for a text without iPhone mention and without labelled price
\* holds the zero-valued placeholder alone, and a candidate without items
\* yields no record.
C6_ItemsNonEmpty ==
    /\ (phase = "done" /\ invoice # <<>>) => Len(Items) >= 1
    /\ (Done("regex") /\ FoundItems(text) = <<>>
            /\ ~SearchGeneralPrice(FullText(text), 1).found)
       => Items = <<Placeholder>>
    /\ (phase = "done" /\ strategy \in {"ollama", "gemini"} /\ response.items = <<>>)
       => invoice = <<>>

\* a text of several tokens in which no item is found: the placeholder stands in
C6_Witness ==
    /\ Done("regex") /\ Len(FullText(text)) >= 2
    /\ FoundItems(text) = <<>>
    /\ invoice # <<>> /\ Items = <<Placeholder>>

-----------------------------------------------------------------------------
(* C7: the line item invariant *)

\* C7: every item of every record has a quantity of at least 1 (its total is a
\* number by construction of a record).
C7_QuantityPositive ==
    (phase = "done" /\ invoice # <<>>)
    => \A i \in 1..Len(Items) : Items[i].quantity >= 1

-----------------------------------------------------------------------------
(* C8, C9, C10: post-processing of a generative candidate *)

Generative == phase = "done" /\ strategy \in {"ollama", "gemini"} /\ invoice # <<>>

Candidate(i) == response.items[i]

\* C8: the total of an accepted item is the candidate's total_price when it
\* carries one, and quantity x unit_price otherwise.
C8_ItemTotal ==
    Generative
    => \A i \in 1..Len(Items) :
          Items[i].total = IF Candidate(i).total_price.tag = "num"
                           THEN Candidate(i).total_price.val
                           ELSE Items[i].quantity * Items[i].unit_price

\* C9: an iPhone item keeps the candidate's explicit unit_price and gets 250.00
\* only when the candidate carries none.
C9_IPhonePrice ==
    Generative
    => \A i \in 1..Len(Items) :
          IsIPhone(Candidate(i).description)
          => Items[i].unit_price = IF Candidate(i).unit_price.tag = "num"
                                   THEN Candidate(i).unit_price.val
                                   ELSE UNIT_PRICE

\* C10: an item that is no iPhone and carries no explicit unit_price gets
\* total_price / quantity when the candidate carries a total_price (stated
\* here for a quantity of at least 1), and 250.00 otherwise.
C10_DerivedPrice ==
    Generative
    => \A i \in 1..Len(Items) :
          (~IsIPhone(Candidate(i).description) /\ Candidate(i).unit_price.tag # "num"
              /\ Items[i].quantity >= 1)
          => Items[i].unit_price =
                IF Candidate(i).total_price.tag = "num"
                THEN Candidate(i).total_price.val \div Items[i].quantity
                ELSE UNIT_PRICE

-----------------------------------------------------------------------------
(* C11: reconciliation of a generative candidate *)

\* the items of the candidate after defaulting, before any reconciliation
Defaulted ==
    [i \in 1..Len(response.items) |->
        IF strategy = "ollama" THEN OllamaItem(Candidate(i)).item
        ELSE GeminiItem(Candidate(i)).item]

\* C11: when a generative candidate carries an invoice_total T that differs
\* from the sum of its item totals by more than one cent, the accepted record
\* has total T, and its first item has quantity max(1, round(T / 250.0)) and
\* total T, as the engine's reconciliation would leave them.
C11_SameReconciliation ==
    (Generative /\ response.invoice_total.tag = "num"
        /\ Abs(response.invoice_total.val - SumTotals(Defaulted)) > 1)
    => (/\ invoice[1].total = response.invoice_total.val
        /\ Items[1].quantity =
              Max(1, RoundHalfEven(response.invoice_total.val, UNIT_PRICE))
        /\ Items[1].total = response.invoice_total.val)

-----------------------------------------------------------------------------
(* C12: the order of the name strategies *)

Corpus == FullText(text)

-----------------------------------------------------------------------------
(* C13: no capitalised pair, no name *)

\* two consecutive words that both start with an upper-case letter
HasCapitalPair(s) ==
    \E i \in 1..Len(s) :
        /\ s[i] \in CapWords
        /\ SpacesEnd(s, LettersEnd(s, i)) > LettersEnd(s, i)
        /\ At(s, SpacesEnd(s, LettersEnd(s, i))) \in CapWords

\* C13: for a text without two consecutive capitalised words the name is the
\* literal "Client", label or no label.
C13_NoCapitalPair ==
    (Done("regex") /\ ~HasCapitalPair(Corpus))
    => invoice[1].client_name = <<"Client">>

-----------------------------------------------------------------------------
(* C14: the address *)

AddressStarts == {p \in 1..Len(Corpus) : AddressMatchAt(Corpus, p).found}

\* C14: the address of the record is the first stretch of the text that
\* matches the street and postal code pattern, and the empty string when no
\* stretch of the text matches it.
C14_AddressNotFabricated ==
    Done("regex") =>
        IF AddressStarts = {} THEN invoice[1].client_address = <<>>
        ELSE \E p \in AddressStarts :
                /\ \A o \in AddressStarts : p <= o
                /\ invoice[1].client_address =
                      SubSeq(Corpus, p, AddressMatchAt(Corpus, p).end - 1)

\* an address with text before it and after it
C14_Witness ==
    /\ Done("regex")
    /\ invoice[1].client_address # <<>>
    /\ \E p \in AddressStarts :
          /\ p > 1
          /\ AddressMatchAt(Corpus, p).end <= Len(Corpus)
          /\ invoice[1].client_address =
                SubSeq(Corpus, p, AddressMatchAt(Corpus, p).end - 1)

-----------------------------------------------------------------------------
(* C17: the engine returns a record for every text *)

\* C17: the engine returns a record for every text, and every field it could
\* not recover holds its default: an empty address, the name "Client", the
\* placeholder item alone and a total of zero.
C17_NeverRaises ==
    (phase = "done" /\ strategy = "regex") =>
        /\ invoice # <<>>
        /\ AddressStarts = {} => invoice[1].client_address = <<>>
        /\ (~SearchLabelName(Corpus, 1).found /\ AddressStarts = {}
                /\ ~FirstValidPair(Corpus, 1).found)
              => invoice[1].client_name = <<"Client">>
        /\ (IPhoneMatches(Corpus, 1) = <<>> /\ ~SearchGeneralPrice(Corpus, 1).found)
              => (Items = <<Placeholder>> /\ invoice[1].total = 0)

-----------------------------------------------------------------------------
(* C20: the fallback items *)

\* C20: when the text holds no quantity-prefixed iPhone mention, a labelled
\* price P gives exactly one item of quantity 1, unit price P and total P and
\* a record total of P; without a labelled price the record holds exactly the
\* item "Service / Prestation" of quantity 1, unit price 0 and total 0.
C20_FallbackItems ==
    (Done("regex") /\ IPhoneMatches(Corpus, 1) = <<>>) =>
        LET price == SearchGeneralPrice(Corpus, 1)
        IN /\ Len(Items) = 1
           /\ Items[1].quantity = 1
           /\ IF price.found
              THEN /\ Items[1].unit_price = price.cents
                   /\ Items[1].total = price.cents
                   /\ invoice[1].total = price.cents
              ELSE /\ Items[1].description.label = <<"Service / Prestation">>
                   /\ Items[1].unit_price = 0
                   /\ Items[1].total = 0

\* a labelled price of 500.00 in a text without iPhone
C20_Witness ==
    /\ Done("regex") /\ IPhoneMatches(Corpus, 1) = <<>>
    /\ SearchGeneralPrice(Corpus, 1).found
    /\ SearchGeneralPrice(Corpus, 1).cents = 50000
    /\ Len(Items) = 1 /\ Items[1].unit_price = 50000 /\ invoice[1].total = 50000

-----------------------------------------------------------------------------
(* C15: determinism *)

RunPairs == {p \in (1..Len(runs)) \X (1..Len(runs)) : p[1] < p[2]}

SameText(p) ==
    /\ runs[p[1]].strategy = "regex" /\ runs[p[2]].strategy = "regex"
    /\ runs[p[1]].text = runs[p[2]].text

-----------------------------------------------------------------------------
(* C16: the invoice number *)

\* C16: two runs that return a record, by the engine or by a generative
\* strategy, never return the same invoice_number.
C16_UniqueNumber ==
    \A p \in RunPairs :
        (runs[p[1]].out # <<>> /\ runs[p[2]].out # <<>>)
        => runs[p[1]].out[1].invoice_number # runs[p[2]].out[1].invoice_number

-----------------------------------------------------------------------------
(* C18: a rejected input *)

Untouched == invoked = {} /\ invoice = <<>> /\ ~pdf

\* C18: a request whose OCR fails ends with status 500, and a request whose
\* OCR reads an empty or blank text ends with status 400; in both cases no
\* strategy is invoked, no record is produced and no PDF is generated.
C18_InputRejected ==
    /\ (phase = "done" /\ request.ocr = "error") => (status = 500 /\ Untouched)
    /\ (phase = "done" /\ request.ocr = "text" /\ StripWs(text) = <<>>)
          => (status = 400 /\ Untouched)

\* a request to app_with_ollama.py for the generative strategy, whose OCR
\* reads white space only
C18_Witness ==
    /\ phase = "done" /\ request.app = "ollama" /\ request.method = "ollama"
    /\ request.ocr = "text" /\ text # <<>> /\ StripWs(text) = <<>>
    /\ status = 400 /\ Untouched

-----------------------------------------------------------------------------
(* C19: the failure of the generative strategy *)

\* the request asks for the generative strategy, which is unavailable or
\* returns an error, and the image holds a text that is not blank
StrategyFails ==
    /\ phase = "done" /\ request.upload = "image" /\ request.ocr # "error"
    /\ StripWs(text) # <<>>
    /\ \/ request.app = "ollama" /\ request.method = "ollama"
             /\ interpret_with_ollama(response).error # ""
       \/ request.app = "gemini" /\ interpret_with_gemini(response).error # ""

\* C19: in both applications such a request ends with a success response
\* that carries the record of the rule-based engine for the same text.
C19_Fallback ==
    StrategyFails =>
        /\ status = 200
        /\ "regex" \in invoked
        /\ invoice = <<interpret_invoice_data_regex(StripWs(text))>>

-----------------------------------------------------------------------------
(* C21: grouping by model label *)

\* the positions of the iPhone mentions of a text
MentionsAt(s) == {k \in 1..Len(s) : s[k] = "iphone"}

RECURSIVE WsBack(_, _)
WsBack(s, i) == IF At(s, i) \in {"sp", "nl"} THEN WsBack(s, i - 1) ELSE i

RECURSIVE DigitsBack(_, _)
DigitsBack(s, i) == IF At(s, i) \in Digits THEN DigitsBack(s, i - 1) ELSE i

\* the quantity written before the mention at k
QuantityOf(s, k) ==
    LET e == WsBack(s, k - 1)
    IN SubSeq(s, DigitsBack(s, e) + 1, e)

\* the model number written after the mention at k: the number that follows
\* it, unless that number is the quantity of the next mention
ModelOf(s, k) ==
    LET a == IF At(s, k + 1) = "s" THEN k + 2 ELSE k + 1
        c == WsEnd(s, a)
        d == DigitsEnd(s, c)
    IN IF At(s, WsEnd(s, d)) = "iphone" THEN <<>> ELSE SubSeq(s, c, d - 1)

LabelOf(s, k) == ModelKey(ModelOf(s, k))

\* the sum of the quantities of the mentions of label l from position k on
RECURSIVE QuantityOfLabel(_, _, _)
QuantityOfLabel(s, l, k) ==
    IF k > Len(s) THEN 0
    ELSE (IF s[k] = "iphone" /\ LabelOf(s, k) = l THEN IntOf(QuantityOf(s, k)) ELSE 0)
            + QuantityOfLabel(s, l, k + 1)

FirstMention(s, l) == CHOOSE k \in MentionsAt(s) :
    /\ LabelOf(s, k) = l
    /\ \A j \in MentionsAt(s) : LabelOf(s, j) = l => k <= j

\* a sequence of quantity-prefixed mentions whose model numbers have at most
\* two digits, in a text without a long run of digits and without an explicit
\* total, so that the record shows the quantities before the reconciliation
MentionSequence(s) ==
    /\ MentionsAt(s) # {}
    /\ \A k \in MentionsAt(s) : QuantityOf(s, k) # <<>> /\ Len(ModelOf(s, k)) <= 2
    /\ \A i \in 1..Len(s) : s[i] # LongRun
    /\ ~ExtractTotal(s).found

\* C21: for a sequence of quantity-prefixed iPhone mentions the engine returns
\* exactly one item per distinct model label, in the order of first
\* appearance, whose quantity is the sum of the quantities of the mentions of
\* that label, with unit price 250.00 and total quantity x 250.00.
C21_Grouping ==
    (Done("regex") /\ MentionSequence(Corpus)) =>
        /\ Len(Items) = Cardinality({LabelOf(Corpus, k) : k \in MentionsAt(Corpus)})
        /\ \A i \in 1..Len(Items) :
              /\ \E k \in MentionsAt(Corpus) : LabelOf(Corpus, k) = Items[i].description.label
              /\ Items[i].quantity = QuantityOfLabel(Corpus, Items[i].description.label, 1)
              /\ Items[i].unit_price = UNIT_PRICE
              /\ Items[i].total = Items[i].quantity * UNIT_PRICE
        /\ \A i, j \in 1..Len(Items) :
              (i < j /\ (\E k \in MentionsAt(Corpus) : LabelOf(Corpus, k) = Items[i].description.label)
                     /\ (\E k \in MentionsAt(Corpus) : LabelOf(Corpus, k) = Items[j].description.label))
              => FirstMention(Corpus, Items[i].description.label)
                    < FirstMention(Corpus, Items[j].description.label)

-----------------------------------------------------------------------------
(* C22: the anchoring of the label *)

\* the label at position k of the raw text, followed by a colon and two
\* capitalised words
NamedLabelAt(t, k) ==
    LET a  == WsEnd(t, k + 1)
        b  == WsEnd(t, a + 1)
        e1 == LowerEnd(t, b + 1)
        f  == SpacesEnd(t, e1)
        e2 == LowerEnd(t, f + 1)
    IN IF /\ At(t, k) \in LabelWords /\ At(t, a) = "colon"
          /\ At(t, b) \in CapWords /\ f > e1
          /\ At(t, f) \in CapWords /\ At(t, e2) \notin WordChars
       THEN [found |-> TRUE, name |-> SubSeq(t, b, e2 - 1)]
       ELSE NoMatch

\* the label is the first thing on its line
AtLineStart(t, k) ==
    LET j == WsBack(t, k - 1)
    IN j = 0 \/ \E i \in (j + 1)..(k - 1) : t[i] = "nl"

\* the label follows the full stop of the sentence before it
AtSentenceStart(t, k) ==
    LET j == WsBack(t, k - 1)
    IN j < k - 1 /\ At(t, j) = "dot"

AnchoredLabels(t) ==
    {k \in 1..Len(t) : /\ NamedLabelAt(t, k).found
                       /\ AtLineStart(t, k) \/ AtSentenceStart(t, k)}

FirstAnchored(t) == CHOOSE k \in AnchoredLabels(t) : \A j \in AnchoredLabels(t) : k <= j

\* C22: when a label followed by two capitalised words stands at the start of
\* a line of the raw text or at the start of a sentence, the label strategy
\* succeeds and the name is the two words after the first such label; when no
\* label stands there, the label strategy does not succeed.
C22_LabelAnchoring ==
    Done("regex") =>
        /\ AnchoredLabels(text) # {} =>
              /\ SearchLabelName(Corpus, 1).found
              /\ invoice[1].client_name = NamedLabelAt(text, FirstAnchored(text)).name
        /\ (\A k \in 1..Len(text) :
               text[k] \in LabelWords => ~(AtLineStart(text, k) \/ AtSentenceStart(text, k)))
              => ~SearchLabelName(Corpus, 1).found

-----------------------------------------------------------------------------
(* C23: the scan for any pair *)

\* the positions of the pairs of consecutive capitalised words of which both
\* words have four letters or more and neither is an excluded word
QualifyingPairs(s) ==
    {i \in 1..Len(s) : /\ PairAt(s, i).found
                       /\ ValidWord(PairAt(s, i).first)
                       /\ ValidWord(PairAt(s, i).last)}

FirstQualifying(s) ==
    LET i == CHOOSE i \in QualifyingPairs(s) : \A j \in QualifyingPairs(s) : i <= j
    IN PairAt(s, i).first \o <<"sp">> \o PairAt(s, i).last

\* neither the label nor the words before the address gave a name
LabelAndProximityFail ==
    /\ ~SearchLabelName(Corpus, 1).found
    /\ ~(invoice[1].client_address # <<>>
            /\ NameBeforeAddress(Corpus, invoice[1].client_address).found)

\* C23: when the label and proximity strategies fail, the name is the first
\* qualifying pair of the text if the text holds one, whatever word stands
\* before the pair, and "Client" only if it holds none.
C23_GenericFallback ==
    (Done("regex") /\ LabelAndProximityFail) =>
        invoice[1].client_name =
            IF QualifyingPairs(Corpus) = {} THEN <<"Client">> ELSE FirstQualifying(Corpus)

-----------------------------------------------------------------------------
(* C24: the total is the sum of the items *)

\* C24: in every record of the engine the total is the sum of the totals of
\* the items, however many items there are and whatever explicit total the
\* text states.
C24_TotalIsSum ==
    Done("regex") => invoice[1].total = SumTotals(Items)

-----------------------------------------------------------------------------
(* C25: concurrent requests *)

\* C25: in every interleaving of two requests, a request that is answered
\* receives the rendering of its own record, made from its own upload, and
\* the files a request has written are still its own when it reads them.
C25_Isolated ==
    \A r \in Requests :
        /\ workers[r].pc = "saved" =>
              files.uploads[<<workers[r].timestamp, workers[r].filename>>].by = r
        /\ workers[r].pc = "generated" => files.pdfs[workers[r].timestamp].by = r
        /\ (workers[r].pc = "done" /\ workers[r].status = 200) =>
              /\ workers[r].upload_by = r
              /\ workers[r].pdf_by = r
              /\ workers[r].pdf_base64 = <<Encode(Render(workers[r].invoice_data[1]))>>

-----------------------------------------------------------------------------
(* C26: the frame of the reconciliation and of the colours *)

\* the first item has the quantity and total found, or those of the total T
FirstItemReconciled(t) ==
    \/ /\ Items[1].quantity = FoundItems(t)[1].quantity
       /\ Items[1].total = FoundItems(t)[1].total
    \/ /\ Declared(t).found
       /\ Items[1].quantity = RoundHalfEven(Declared(t).cents, UNIT_PRICE)
       /\ Items[1].total = Declared(t).cents

\* C26: when the text orders iPhones, the explicit total and the colours
\* change the first item only: every later item keeps its model label, the
\* summed quantity, the unit price 250.00 and the total quantity x 250.00,
\* and carries no colour; the colours change no quantity, unit price or total.
C26_Frame ==
    (Done("regex") /\ FoundItems(text) # <<>>) =>
        /\ Len(Items) = Len(FoundItems(text))
        /\ \A i \in 2..Len(Items) :
              /\ Items[i] = FoundItems(text)[i]
              /\ Items[i].description.colours = <<>>
              /\ Items[i].unit_price = UNIT_PRICE
              /\ Items[i].total = Items[i].quantity * UNIT_PRICE
        /\ Items[1].description.label = FoundItems(text)[1].description.label
        /\ Items[1].unit_price = UNIT_PRICE
        /\ FirstItemReconciled(text)
        /\ ~Declared(text).found =>
              \A i \in 1..Len(Items) :
                 /\ Items[i].quantity = FoundItems(text)[i].quantity
                 /\ Items[i].total = FoundItems(text)[i].total

\* two models, a colour, and a total that rewrites the first item
C26_Witness ==
    /\ Done("regex") /\ Len(FoundItems(text)) = 2 /\ Len(Items) = 2
    /\ Declared(text).found
    /\ Items[1].total = Declared(text).cents
    /\ Items[1].total # FoundItems(text)[1].total
    /\ Items[1].description.colours # <<>>
    /\ Items[2] = FoundItems(text)[2]
    /\ Items[2].quantity = 1

-----------------------------------------------------------------------------
(* C27: validation before any side effect *)

\* the extension of the file name the request carried, in lower case
Extension(filename) ==
    IF Len(filename) >= 2 THEN Lower(filename[Len(filename)]) ELSE ""

\* no 'image' part, an empty file name, or an extension that is not allowed
InvalidUpload ==
    \/ request.upload = "missing"
    \/ request.filename = <<>>
    \/ Extension(request.filename) \notin ALLOWED_EXTENSIONS

\* nothing was written to the upload folder, and neither the OCR, nor a
\* strategy, nor the PDF generation was invoked
NoSideEffect ==
    /\ ~request.saved /\ request.ocr = "none"
    /\ invoked = {} /\ invoice = <<>> /\ ~pdf

\* C27: a request with an invalid upload is answered 400, and in app.py a
\* request with a valid upload made while Gemini is unavailable is answered
\* 503; in both cases without any side effect.
C27_ValidationFirst ==
    phase = "done" =>
        /\ InvalidUpload => (status = 400 /\ NoSideEffect)
        /\ (~InvalidUpload /\ request.app = "gemini" /\ response.kind = "unavailable")
              => (status = 503 /\ NoSideEffect)

\* a file a.png.exe sent to app.py while Gemini is unavailable
C27_Witness ==
    /\ phase = "done" /\ request.app = "gemini" /\ response.kind = "unavailable"
    /\ request.filename = <<"a", "png", "exe">>
    /\ status = 400 /\ NoSideEffect

\* C28: whatever the generative model answers (library unavailable, call
\* failure, text without JSON, JSON without items, items whose quantity or
\* unit_price is missing, null or not a number), interpret_with_ollama and
\* interpret_with_gemini return exactly one of a record without an error or an
\* error without a record, and every item of a returned record has a numeric
\* unit_price and a numeric total.
NumericItem(item) == {"unit_price", "total"} \subseteq DOMAIN item

C28_TotalOutcome ==
    (phase = "done" /\ strategy \in {"ollama", "gemini"}) =>
        /\ (invoice # <<>> /\ error = "") \/ (invoice = <<>> /\ error # "")
        /\ invoice # <<>> => \A i \in 1..Len(Items) : NumericItem(Items[i])

=============================================================================
